---- MODULE Spec2Model ----
(***************************************************************************)
(* The request security pipeline of the WebSecurity backend                *)
(* (backend/server.js, middleware/security.js, middleware/csrf.js,         *)
(* middleware/logger.js)                                                   *)
(* and, of the frontend, the AuthProvider (contexts/AuthContext.jsx) and   *)
(* the login form's attempt limiter (lib/security.js, Login.jsx).          *)
(*                                                                         *)
(* Strings are sequences of atoms; an atom is a short piece of text        *)
(* ("/", "api", ".js", "<", "b", ...).  Substring tests, splitting,        *)
(* lower-casing and number formatting are computed over the atoms.         *)
(* Time is the value of Date.now() in milliseconds.                        *)
(***************************************************************************)
EXTENDS Integers, Sequences, FiniteSets, TLC

VARIABLES
    now,        \* Date.now()
    req,        \* the request travelling through the middleware chain
    store,      \* express-rate-limit hit records: limiter -> client key -> record
    slow,       \* express-slow-down hit records: client key -> record
    sessions,   \* express-session store: session id -> session data
    nonce,      \* number of crypto.randomBytes draws so far
    served,     \* number of requests the server has taken so far
    ticks,      \* number of clock advances so far
    flight,     \* requests of one client held at one limiter at the same time
    admitted,   \* history: limiter -> client key -> mount -> requests the limiter
                \* has admitted in the key's current window
    provider,   \* frontend AuthProvider: its React state and its pending async calls
    local       \* frontend localStorage 'login_attempts', the last checkRateLimit
                \* result, and the history of the calls that were allowed

vars == <<now, req, store, slow, sessions, nonce, served, ticks, flight, admitted,
          provider, local>>

----------------------------------------------------------------------------
(* Bounds of the model *)

MaxRequests == 3        \* requests per behaviour of Spec
MaxBurst == 3           \* requests beyond a limiter's max per behaviour of SpecRate
MaxTicks == 2           \* clock advances per behaviour (in units of the tick step)
MaxSpeedRequests == 45  \* requests per behaviour of SpecSpeed
MaxFlight == 3          \* requests dispatched at the same time in SpecConcurrent
MaxAuthEvents == 3      \* auth-state-change callbacks per behaviour of SpecProvider
MaxChecks == 8          \* checkRateLimit calls per behaviour of SpecAttempts

----------------------------------------------------------------------------
(* Text helpers *)

\* String.prototype.includes
Includes(s, sub) ==
    \E i \in 0..(Len(s) - Len(sub)) : SubSeq(s, i + 1, i + Len(sub)) = sub


\* index of the first occurrence of atom a in s, 0 when absent
IndexOf(s, a) ==
    IF \E i \in 1..Len(s) : s[i] = a
    THEN CHOOSE i \in 1..Len(s) : s[i] = a /\ \A j \in 1..(i - 1) : s[j] # a
    ELSE 0

\* String.prototype.split(sep): the sequence of parts
RECURSIVE Split(_, _)
Split(s, sep) ==
    LET i == IndexOf(s, sep)
    IN IF i = 0 THEN <<s>>
       ELSE <<SubSeq(s, 1, i - 1)>> \o Split(SubSeq(s, i + 1, Len(s)), sep)

\* the atoms that have an upper-case spelling in the model
LowerAtom(a) ==
    CASE a = "API" -> "api"
      [] a = "LOGIN" -> "login"
      [] a = ".ENV" -> ".env"
      [] a = "Admin" -> "admin"
      [] OTHER -> a

\* String.prototype.toLowerCase
ToLowerCase(s) == [i \in 1..Len(s) |-> LowerAtom(s[i])]

Digit(d) ==
    CASE d = 0 -> "0" [] d = 1 -> "1" [] d = 2 -> "2" [] d = 3 -> "3"
      [] d = 4 -> "4" [] d = 5 -> "5" [] d = 6 -> "6" [] d = 7 -> "7"
      [] d = 8 -> "8" [] d = 9 -> "9"

Digits == {"0", "1", "2", "3", "4", "5", "6", "7", "8", "9"}


\* Number.prototype.toString for a non-negative integer
RECURSIVE NumToString(_)
NumToString(n) ==
    IF n < 10 THEN <<Digit(n)>>
    ELSE NumToString(n \div 10) \o <<Digit(n % 10)>>

NaN == 0 - 1

\* parseInt: the leading decimal digits, NaN when there are none
RECURSIVE ParseDigits(_, _)
ParseDigits(s, acc) ==
    IF s = <<>> \/ s[1] \notin Digits THEN acc
    ELSE ParseDigits(Tail(s), acc * 10 + (CHOOSE d \in 0 .. 9 : Digit(d) = s[1]))

ParseInt(s) == IF s = <<>> \/ s[1] \notin Digits THEN NaN ELSE ParseDigits(s, 0)

\* Math.ceil(a / b) for a >= 0, b > 0

----------------------------------------------------------------------------
(* Request URLs (req.originalUrl) used by the model's clients *)

UrlLogin == <<"/", "api", "/", "login">>
UrlLogout == <<"/", "api", "/", "logout">>
UrlRegister == <<"/", "api", "/", "register">>
UrlUser == <<"/", "api", "/", "user">>
UrlSupabaseHealth == <<"/", "api", "/", "supabase-", "health">>
UrlProfile == <<"/", "api", "/", "profile">>
UrlHealth == <<"/", "api", "/", "health">>
UrlCsrfToken == <<"/", "api", "/", "csrf-token">>
UrlUnmapped == <<"/", "api", "/", "nothing">>
UrlEnv == <<"/", ".env">>
UrlLoginHealth == UrlLogin \o <<"?", "next", "=", "/", "health">>
UrlLoginCss == UrlLogin \o <<"?", "x", "=", ".css">>
UrlUserCss == UrlUser \o <<"?", "x", "=", ".css">>
UrlAsset == <<"/", "assets", "/", "app", ".js">>

\* req.path: the URL without its query string
PathOf(url) == Split(url, "?")[1]

\* app.use(prefix, ...): case-insensitive prefix match on a segment boundary
Mounted(prefix, url) ==
    LET path == ToLowerCase(PathOf(url))
    IN /\ Len(path) >= Len(prefix) /\ SubSeq(path, 1, Len(prefix)) = prefix
       /\ (Len(path) = Len(prefix) \/ path[Len(prefix) + 1] = "/")

\* app.get(route, ...), router.post(route, ...): case-insensitive, non-strict
RouteIs(route, url) ==
    LET path == ToLowerCase(PathOf(url))
    IN path = route \/ path = route \o <<"/">>

----------------------------------------------------------------------------
(* Rate limiting: middleware/security.js, createRateLimit *)


Limiters == {"general", "auth", "register"}

Max(l) ==
    CASE l = "general" -> 100
      [] l = "auth" -> 5
      [] l = "register" -> 3

WindowMs(l) ==
    CASE l = "general" -> 15 * 60 * 1000
      [] l = "auth" -> 15 * 60 * 1000
      [] l = "register" -> 60 * 60 * 1000

\* skipPaths of each limiter
SkipPaths(l) ==
    IF l = "general"
    THEN {<<"/", "assets", "/">>, <<".css">>, <<".js">>, <<".png">>, <<".jpg">>,
          <<".jpeg">>, <<".gif">>, <<".ico">>, <<".svg">>, <<".woff">>,
          <<".woff2">>, <<".ttf">>, <<".eot">>}
    ELSE {}

\* skip: (req, res) => skipPaths.some(p => req.originalUrl.toLowerCase().includes(p))
Skip(l, url) == \E p \in SkipPaths(l) : Includes(ToLowerCase(url), p)

\* the hit record of a key that has none
NoRecord == [hits |-> 0, reset |-> 0]

\* an increment that never starts a new window for a key it has seen
IncrementNeverRestarts(rec, windowMs, t) ==
    LET cur == IF rec.hits = 0 THEN [hits |-> 0, reset |-> t + windowMs] ELSE rec
    IN [cur EXCEPT !.hits = @ + 1]

\* the store's increment: a record whose window has lapsed restarts, then counts
Increment(rec, windowMs, t) ==
    LET cur == IF rec.reset <= t THEN [hits |-> 0, reset |-> t + windowMs] ELSE rec
    IN [cur EXCEPT !.hits = @ + 1]

\* a rejection that carries no Retry-After
RetryAfterAbsent(rec, t) == 0

\* Retry-After of a rejected request, in seconds
RetryAfter(rec, t) == (rec.reset - t + 999) \div 1000

\* a server with no limiter in front of /api/logout
RouteLimiterLoginOnly(url) ==
    CASE Mounted(UrlRegister, url) -> "register"
      [] Mounted(UrlLogin, url) -> "auth"
      [] OTHER -> ""

\* the limiter the route of a URL is mounted behind, "" when none
RouteLimiter(url) ==
    CASE Mounted(UrlRegister, url) -> "register"
      [] Mounted(UrlLogin, url) \/ Mounted(UrlLogout, url) -> "auth"
      [] OTHER -> ""

----------------------------------------------------------------------------
(* Threat signatures: middleware/security.js, isSuspiciousPath *)

SuspiciousPaths ==
    {<<".env">>, <<".htaccess">>, <<"config">>, <<".git">>, <<".svn">>, <<"cvs">>,
     <<"backup">>, <<"admin">>, <<"administrator">>, <<"wp-admin">>,
     <<"phpmyadmin">>, <<"adminer">>, <<"phpinfo">>, <<"server-status">>,
     <<"server-info">>, <<"trace.axd">>, <<"elmah">>, <<".ssh", "/">>,
     <<"id_rsa">>, <<"id_dsa">>, <<".key">>, <<".pem">>, <<"privatekey">>,
     <<"database.yml">>, <<"databases.yml">>, <<"wp-config">>,
     <<"configuration.php">>, <<"filezilla">>, <<"winscp">>, <<"sftp-config">>,
     <<"composer.">>, <<"package.json">>, <<"actuator", "/">>, <<"health">>,
     <<"metrics">>, <<"dump">>, <<"debug">>, <<"test.php">>}

IsSuspiciousPath(path) ==
    \E s \in SuspiciousPaths : Includes(ToLowerCase(path), s)

----------------------------------------------------------------------------
(* Anti-forgery tokens: middleware/csrf.js, class CSRFProtection *)

CsrfSecret == "your-csrf-secret-key-change-in-production"
MaxAge == 24 * 60 * 60 * 1000

\* Token text is a sequence of pieces: a base64 run (carrying the bytes it
\* encodes), a "." and a hex digest (carrying the key and message it was
\* computed from, which is all that tells two HMAC-SHA256 digests apart).
Dot == [t |-> ".", p |-> <<>>, k |-> ""]
Base64(payload) == [t |-> "b64", p |-> payload, k |-> ""]
HmacHex(key, payload) == [t |-> "hex", p |-> payload, k |-> key]

\* Buffer.from(text, 'base64').toString(): the encoded bytes; text that is not
\* one base64 run of the server decodes to bytes that are no payload
Base64Decode(part) ==
    IF Len(part) = 1 /\ part[1].t = "b64" THEN part[1].p ELSE <<"?">>

\* crypto.randomBytes(32).toString('hex'): the n-th draw

GenerateToken(sessionId, t, n) ==
    LET payload == sessionId \o <<":">> \o NumToString(t) \o <<":">> \o <<"r">> \o NumToString(n)
    IN <<Base64(payload), Dot, HmacHex(CsrfSecret, payload)>>

\* element i of a destructured array, <<>> for undefined
Nth(parts, i) == IF Len(parts) >= i THEN parts[i] ELSE <<>>

\* a verifier that does not look at the session the token was made for
VerifyTokenAnySession(token, sessionId, t) ==
    IF token = <<>> THEN FALSE
    ELSE LET parts == Split(token, Dot)
             payloadB64 == Nth(parts, 1)
             signature == Nth(parts, 2)
         IN IF payloadB64 = <<>> \/ signature = <<>> THEN FALSE
            ELSE LET payload == Base64Decode(payloadB64)
                     fields == Split(payload, ":")
                     timestamp == ParseInt(Nth(fields, 2))
                 IN IF signature # <<HmacHex(CsrfSecret, payload)>> THEN FALSE
                    ELSE timestamp # NaN /\ t - timestamp < MaxAge

\* a verifier that still accepts a token at the age of maxAge
VerifyTokenAtMaxAge(token, sessionId, t) ==
    IF token = <<>> THEN FALSE
    ELSE LET parts == Split(token, Dot)
             payloadB64 == Nth(parts, 1)
             signature == Nth(parts, 2)
         IN IF payloadB64 = <<>> \/ signature = <<>> THEN FALSE
            ELSE LET payload == Base64Decode(payloadB64)
                     fields == Split(payload, ":")
                     tokenSessionId == Nth(fields, 1)
                     timestamp == ParseInt(Nth(fields, 2))
                 IN IF tokenSessionId # sessionId THEN FALSE
                    ELSE IF signature # <<HmacHex(CsrfSecret, payload)>> THEN FALSE
                    ELSE timestamp # NaN /\ t - timestamp <= MaxAge

VerifyToken(token, sessionId, t) ==
    IF token = <<>> THEN FALSE
    ELSE LET parts == Split(token, Dot)
             payloadB64 == Nth(parts, 1)
             signature == Nth(parts, 2)
         IN IF payloadB64 = <<>> \/ signature = <<>> THEN FALSE
            ELSE LET payload == Base64Decode(payloadB64)
                     fields == Split(payload, ":")
                     tokenSessionId == Nth(fields, 1)
                     timestamp == ParseInt(Nth(fields, 2))
                 IN IF tokenSessionId # sessionId THEN FALSE
                    ELSE IF signature # <<HmacHex(CsrfSecret, payload)>> THEN FALSE
                    ELSE timestamp # NaN /\ t - timestamp < MaxAge

----------------------------------------------------------------------------
(* Markup filtering, first pass: xss(value, xssOptions)                    *)
(* (middleware/security.js, xssOptions and sanitizeInput).  Positions are  *)
(* zero-based as in the JavaScript; "[removed]" and "[/removed]" are one   *)
(* atom each.                                                              *)

\* String.prototype.slice(a, b)
Slice(s, a, b) ==
    LET lo == IF a < 0 THEN 0 ELSE a
        hi == IF b > Len(s) THEN Len(s) ELSE b
    IN IF lo >= hi THEN <<>> ELSE SubSeq(s, lo + 1, hi)

\* String.prototype.charAt
CharAt(s, i) == IF i >= 0 /\ i < Len(s) THEN s[i + 1] ELSE ""

\* String.prototype.trim
RECURSIVE Trim(_)
Trim(s) ==
    IF s = <<>> THEN s
    ELSE IF s[1] = " " THEN Trim(Tail(s))
    ELSE IF s[Len(s)] = " " THEN Trim(SubSeq(s, 1, Len(s) - 1))
    ELSE s

\* xssOptions.whiteList: tag -> the attributes it may keep
WhiteListTags == {<<"p">>, <<"br">>, <<"strong">>, <<"em">>, <<"u">>, <<"i">>,
                  <<"b">>, <<"span">>, <<"div">>}

WhiteListAttrs(tag) ==
    IF tag \in {<<"span">>, <<"div">>} THEN {<<"class">>} ELSE {}

\* xssOptions.stripIgnoreTagBody
StripIgnoreTagBody == {<<"script">>, <<"style">>, <<"iframe">>, <<"object">>, <<"embed">>}

\* escapeHtml of the filter: "<" and ">" become entities
RECURSIVE EscapeHtml(_)
EscapeHtml(s) ==
    IF s = <<>> THEN <<>>
    ELSE (CASE s[1] = "<" -> <<"&", "lt;">>
            [] s[1] = ">" -> <<"&", "gt;">>
            [] OTHER -> <<s[1]>>) \o EscapeHtml(Tail(s))

\* escapeAttrValue: escapeQuote, then escapeHtml
RECURSIVE EscapeAttrValue(_)
EscapeAttrValue(s) ==
    IF s = <<>> THEN <<>>
    ELSE (CASE s[1] = "\"" -> <<"&", "quot;">>
            [] s[1] = "<" -> <<"&", "lt;">>
            [] s[1] = ">" -> <<"&", "gt;">>
            [] OTHER -> <<s[1]>>) \o EscapeAttrValue(Tail(s))

\* the character a numeric character reference "&" "#NN;" stands for
NumericRefs == {"#38;", "#60;", "#62;", "#34;"}
NumericRefChar(a) ==
    CASE a = "#38;" -> "&"
      [] a = "#60;" -> "<"
      [] a = "#62;" -> ">"
      [] a = "#34;" -> "\""

\* friendlyAttrValue: unescapeQuote, then escapeHtmlEntities (one
\* left-to-right replace each, so decoded text is not decoded again)
RECURSIVE UnescapeQuote(_)
UnescapeQuote(s) ==
    IF s = <<>> THEN <<>>
    ELSE IF Len(s) >= 2 /\ s[1] = "&" /\ s[2] = "quot;"
         THEN <<"\"">> \o UnescapeQuote(SubSeq(s, 3, Len(s)))
    ELSE <<s[1]>> \o UnescapeQuote(Tail(s))

RECURSIVE EscapeHtmlEntities(_)
EscapeHtmlEntities(s) ==
    IF s = <<>> THEN <<>>
    ELSE IF Len(s) >= 2 /\ s[1] = "&" /\ s[2] \in NumericRefs
         THEN <<NumericRefChar(s[2])>> \o EscapeHtmlEntities(SubSeq(s, 3, Len(s)))
    ELSE <<s[1]>> \o EscapeHtmlEntities(Tail(s))

\* safeAttrValue for an attribute that is neither href, src, background nor style
SafeAttrValue(value) == EscapeAttrValue(EscapeHtmlEntities(UnescapeQuote(value)))

\* index of the first white space, -1 when there is none
SpaceIndex(html) == IndexOf(html, " ") - 1

StripSlashes(name) ==
    LET a == IF name # <<>> /\ name[1] = "/" THEN Tail(name) ELSE name
    IN IF a # <<>> /\ a[Len(a)] = "/" THEN SubSeq(a, 1, Len(a) - 1) ELSE a

GetTagName(html) ==
    LET i == SpaceIndex(html)
        raw == IF i = -1 THEN Slice(html, 1, Len(html) - 1) ELSE Slice(html, 1, i + 1)
    IN StripSlashes(ToLowerCase(Trim(raw)))

IsClosing(html) == Slice(html, 0, 2) = <<"<", "/">>

GetAttrs(html) ==
    LET i == SpaceIndex(html)
    IN IF i = -1
       THEN [html |-> <<>>, closing |-> CharAt(html, Len(html) - 2) = "/"]
       ELSE LET inner == Trim(Slice(html, i + 1, Len(html) - 1))
                closing == inner # <<>> /\ inner[Len(inner)] = "/"
            IN [html |-> IF closing THEN Trim(Slice(inner, 0, Len(inner) - 1)) ELSE inner,
                closing |-> closing]

\* stripQuoteWrap, and the quoted form name="value": the text between the quotes
AttrValue(v) ==
    IF v # <<>> /\ v[1] = "\""
    THEN LET rest == Tail(v)
             j == IndexOf(rest, "\"")
         IN IF j = 0 THEN rest ELSE SubSeq(rest, 1, j - 1)
    ELSE v

\* one attribute (text without white space) through the onAttr callback
FilterAttr(tag, chunk) ==
    LET e == IndexOf(chunk, "=")
        name == ToLowerCase(IF e = 0 THEN chunk ELSE SubSeq(chunk, 1, e - 1))
        value == IF e = 0 THEN <<>> ELSE AttrValue(SubSeq(chunk, e + 1, Len(chunk)))
    IN IF name = <<>> \/ name \notin WhiteListAttrs(tag) THEN <<>>
       ELSE LET safe == SafeAttrValue(value)
            IN IF safe = <<>> THEN name
               ELSE name \o <<"=", "\"">> \o safe \o <<"\"">>

\* parseAttr for attribute text whose values hold no white space
RECURSIVE JoinAttrs(_, _)
JoinAttrs(tag, chunks) ==
    IF chunks = <<>> THEN <<>>
    ELSE LET head == FilterAttr(tag, chunks[1])
             rest == JoinAttrs(tag, Tail(chunks))
         IN IF head = <<>> THEN rest
            ELSE IF rest = <<>> THEN head
            ELSE head \o <<" ">> \o rest

ParseAttr(tag, html) == JoinAttrs(tag, Split(html, " "))

\* the html a white-listed tag is rebuilt as
WhiteTag(tag, html) ==
    IF IsClosing(html) THEN <<"<", "/">> \o tag \o <<">">>
    ELSE LET attrs == GetAttrs(html)
             attrsHtml == ParseAttr(tag, attrs.html)
         IN <<"<">> \o tag
            \o (IF attrsHtml # <<>> THEN <<" ">> \o attrsHtml ELSE <<>>)
            \o (IF attrs.closing THEN <<" ", "/">> ELSE <<>>)
            \o <<">">>

\* StripTagBody(...).onIgnoreTag over onIgnoreTagStripAll; posStart -1 is false

OnIgnoreTag(tag, html, position, strip) ==
    IF tag \in StripIgnoreTagBody
    THEN IF IsClosing(html)
         THEN [html |-> <<"[/removed]">>,
               strip |-> [removeList |-> Append(strip.removeList,
                              <<IF strip.posStart # -1 THEN strip.posStart ELSE position,
                                position + 1>>),
                          posStart |-> -1]]
         ELSE [html |-> <<"[removed]">>,
               strip |-> [strip EXCEPT !.posStart =
                              IF @ = -1 \/ @ = 0 THEN position ELSE @]]
    ELSE [html |-> <<>>, strip |-> strip]

OnTag(html, position, strip) ==
    LET tag == GetTagName(html)
    IN IF tag \in WhiteListTags
       THEN [html |-> WhiteTag(tag, html), strip |-> strip]
       ELSE OnIgnoreTag(tag, html, position, strip)

\* a quote opens an attribute value when only white space separates it from "="
RECURSIVE AfterEqual(_, _)
AfterEqual(html, i) ==
    LET ic == CharAt(html, i)
    IN IF ic = "=" THEN TRUE
       ELSE IF ic = " " \/ ic = "" THEN i >= 0 /\ AfterEqual(html, i - 1)
       ELSE FALSE

\* parseTag: the character loop
RECURSIVE ParseTag(_, _, _)
ParseTag(html, pos, st) ==
    IF pos >= Len(html) THEN st
    ELSE LET c == html[pos + 1]
         IN IF st.tagStart = -1
            THEN ParseTag(html, pos + 1,
                          IF c = "<" THEN [st EXCEPT !.tagStart = pos] ELSE st)
            ELSE IF st.quoteStart = ""
            THEN IF c = "<"
                 THEN ParseTag(html, pos + 1,
                          [st EXCEPT !.ret = @ \o EscapeHtml(Slice(html, st.lastPos, pos)),
                                     !.tagStart = pos, !.lastPos = pos])
                 ELSE IF c = ">" \/ pos = Len(html) - 1
                 THEN LET ret1 == st.ret \o EscapeHtml(Slice(html, st.lastPos, st.tagStart))
                          r == OnTag(Slice(html, st.tagStart, pos + 1), Len(ret1), st.strip)
                      IN ParseTag(html, pos + 1,
                             [st EXCEPT !.ret = ret1 \o r.html, !.strip = r.strip,
                                        !.lastPos = pos + 1, !.tagStart = -1])
                 ELSE IF c = "\"" /\ AfterEqual(html, pos - 1)
                 THEN ParseTag(html, pos + 1, [st EXCEPT !.quoteStart = c])
                 ELSE ParseTag(html, pos + 1, st)
            ELSE ParseTag(html, pos + 1,
                          IF c = st.quoteStart THEN [st EXCEPT !.quoteStart = ""] ELSE st)

\* StripTagBody(...).remove
RECURSIVE RemoveRanges(_, _, _)
RemoveRanges(html, list, lastPos) ==
    IF list = <<>> THEN Slice(html, lastPos, Len(html))
    ELSE Slice(html, lastPos, list[1][1]) \o RemoveRanges(html, Tail(list), list[1][2])

\* xss(html, xssOptions)
Xss(html) ==
    LET st == ParseTag(html, 0, [ret |-> <<>>, lastPos |-> 0, tagStart |-> -1,
                                 quoteStart |-> "", strip |-> [removeList |-> <<>>, posStart |-> -1]])
        ret == st.ret \o EscapeHtml(Slice(html, st.lastPos, Len(html)))
    IN RemoveRanges(ret, st.strip.removeList, 0)

----------------------------------------------------------------------------
(* Markup filtering, second pass: DOMPurify.sanitize(value, {ALLOWED_TAGS, *)
(* ALLOWED_ATTR: [], KEEP_CONTENT: true}) (middleware/security.js,         *)
(* sanitizeInput): the text is parsed into a tree, the tree is filtered    *)
(* and written out again.  The tree builder covers formatting elements     *)
(* (b, i, u, em, strong) and ordinary inline elements (span); the tree is  *)
(* kept as its start-tag / text / end-tag sequence in document order.      *)

AllowedTags == {<<"p">>, <<"br">>, <<"strong">>, <<"em">>, <<"u">>, <<"i">>, <<"b">>}

FormattingTags == {<<"b">>, <<"i">>, <<"u">>, <<"em">>, <<"strong">>}

\* atoms that spell a tag name
NameAtoms == {"b", "i", "u", "em", "strong", "span", "img", "script", "a"}

\* character references the tokenizer decodes
CharRefs == {"lt;", "gt;", "amp;", "quot;", "#38;", "#60;", "#62;", "#34;"}
CharRefChar(a) ==
    CASE a \in {"lt;", "#60;"} -> "<"
      [] a \in {"gt;", "#62;"} -> ">"
      [] a \in {"amp;", "#38;"} -> "&"
      [] a \in {"quot;", "#34;"} -> "\""

TextTok(ch) == [k |-> "text", n |-> <<ch>>]
StartTok(name) == [k |-> "start", n |-> name]
EndTok(name) == [k |-> "end", n |-> name]

\* the tag name that starts at html[1]: the atoms up to white space, "/" or ">"
RECURSIVE TagNameOf(_)
TagNameOf(html) ==
    IF html = <<>> \/ html[1] \in {" ", "/", ">"} THEN <<>>
    ELSE <<LowerAtom(html[1])>> \o TagNameOf(Tail(html))

\* the text after the ">" that ends a tag; <<>> when the text ends inside the tag
AfterTag(html) ==
    LET j == IndexOf(html, ">")
    IN IF j = 0 THEN <<>> ELSE SubSeq(html, j + 1, Len(html))

\* the tokenizer
RECURSIVE Tokenize(_)
Tokenize(html) ==
    IF html = <<>> THEN <<>>
    ELSE IF html[1] = "<" /\ Len(html) >= 2 /\ html[2] \in NameAtoms
    THEN IF IndexOf(html, ">") = 0 THEN <<>>
         ELSE <<StartTok(TagNameOf(Tail(html)))>> \o Tokenize(AfterTag(html))
    ELSE IF html[1] = "<" /\ Len(html) >= 3 /\ html[2] = "/" /\ html[3] \in NameAtoms
    THEN IF IndexOf(html, ">") = 0 THEN <<>>
         ELSE <<EndTok(TagNameOf(SubSeq(html, 3, Len(html))))>> \o Tokenize(AfterTag(html))
    ELSE IF html[1] = "&" /\ Len(html) >= 2 /\ html[2] \in CharRefs
    THEN <<TextTok(CharRefChar(html[2]))>> \o Tokenize(SubSeq(html, 3, Len(html)))
    ELSE <<TextTok(html[1])>> \o Tokenize(Tail(html))

\* tree construction state: out is the tree written so far, stack the open
\* elements, afe the list of active formatting elements, next a fresh id

InStack(st, id) == \E i \in 1..Len(st.stack) : st.stack[i].id = id

\* insert an element for a start tag
Insert(st, name) ==
    [st EXCEPT !.out = Append(@, StartTok(name)),
               !.stack = Append(@, [id |-> st.next, n |-> name]),
               !.next = @ + 1]

\* pop the open elements down to position i of the stack (inclusive)
RECURSIVE PopTo(_, _)
PopTo(st, i) ==
    IF Len(st.stack) < i \/ i < 1 THEN st
    ELSE PopTo([st EXCEPT !.out = Append(@, EndTok(st.stack[Len(st.stack)].n)),
                          !.stack = SubSeq(@, 1, Len(@) - 1)], i)

\* reconstruct the active formatting elements: reopen the trailing entries
\* of the list that are no longer open
RECURSIVE Reopen(_, _)
Reopen(st, i) ==
    IF i > Len(st.afe) THEN st
    ELSE LET opened == Insert(st, st.afe[i].n)
         IN Reopen([opened EXCEPT !.afe[i] = [id |-> st.next, n |-> st.afe[i].n]], i + 1)

FirstClosed(st) ==
    LET open == {i \in 1..Len(st.afe) : InStack(st, st.afe[i].id)}
    IN IF open = {} THEN 1
       ELSE 1 + (CHOOSE i \in open : \A j \in open : j <= i)

Reconstruct(st) == Reopen(st, FirstClosed(st))

RemoveAt(seq, i) == SubSeq(seq, 1, i - 1) \o SubSeq(seq, i + 1, Len(seq))

\* push onto the list of active formatting elements (at most three alike)
PushFormatting(st, entry) ==
    LET alike == {i \in 1..Len(st.afe) : st.afe[i].n = entry.n}
        kept == IF Cardinality(alike) >= 3
                THEN RemoveAt(st.afe, CHOOSE i \in alike : \A j \in alike : i <= j)
                ELSE st.afe
    IN [st EXCEPT !.afe = Append(kept, entry)]

StartTag(st, name) ==
    LET r == Reconstruct(st)
        opened == Insert(r, name)
    IN IF name \in FormattingTags
       THEN PushFormatting(opened, [id |-> r.next, n |-> name])
       ELSE opened

\* "any other end tag": close the nearest open element of that name
OtherEndTag(st, name) ==
    LET hits == {i \in 1..Len(st.stack) : st.stack[i].n = name}
    IN IF hits = {} THEN st
       ELSE PopTo(st, CHOOSE i \in hits : \A j \in hits : j <= i)

\* the end tag of a formatting element (adoption agency, no block inside)
FormattingEndTag(st, name) ==
    LET top == IF st.stack = <<>> THEN [id |-> 0, n |-> <<>>] ELSE st.stack[Len(st.stack)]
        listed == {i \in 1..Len(st.afe) : st.afe[i].n = name}
    IN IF top.n = name /\ ~ \E i \in 1..Len(st.afe) : st.afe[i].id = top.id
       THEN PopTo(st, Len(st.stack))
       ELSE IF listed = {} THEN OtherEndTag(st, name)
       ELSE LET f == CHOOSE i \in listed : \A j \in listed : j <= i
                fid == st.afe[f].id
                without == [st EXCEPT !.afe = RemoveAt(@, f)]
            IN IF ~ InStack(st, fid) THEN without
               ELSE PopTo(without, CHOOSE i \in 1..Len(st.stack) : st.stack[i].id = fid)

TreeStep(st, tok) ==
    CASE tok.k = "text" -> [Reconstruct(st) EXCEPT !.out = Append(@, tok)]
      [] tok.k = "start" -> StartTag(st, tok.n)
      [] tok.k = "end" -> IF tok.n \in FormattingTags
                           THEN FormattingEndTag(st, tok.n)
                           ELSE OtherEndTag(st, tok.n)

RECURSIVE TreeBuild(_, _)
TreeBuild(st, toks) ==
    IF toks = <<>> THEN PopTo(st, 1).out
    ELSE TreeBuild(TreeStep(st, toks[1]), Tail(toks))

\* the filter: an element outside ALLOWED_TAGS is removed and its content kept
RECURSIVE FilterTree(_)
FilterTree(tree) ==
    IF tree = <<>> THEN <<>>
    ELSE (IF tree[1].k = "text" \/ tree[1].n \in AllowedTags THEN <<tree[1]>> ELSE <<>>)
         \o FilterTree(Tail(tree))

\* the serializer: no attribute is left on any element
SerializeTok(tok) ==
    CASE tok.k = "start" -> <<"<">> \o tok.n \o <<">">>
      [] tok.k = "end" -> <<"<", "/">> \o tok.n \o <<">">>
      [] tok.k = "text" ->
            (CASE tok.n = <<"&">> -> <<"&", "amp;">>
               [] tok.n = <<"<">> -> <<"&", "lt;">>
               [] tok.n = <<">">> -> <<"&", "gt;">>
               [] OTHER -> tok.n)

RECURSIVE Serialize(_)
Serialize(tree) ==
    IF tree = <<>> THEN <<>> ELSE SerializeTok(tree[1]) \o Serialize(Tail(tree))

\* DOMPurify.sanitize: text without "<" is returned as it is
DomPurify(dirty) ==
    IF ~ \E i \in 1..Len(dirty) : dirty[i] = "<" THEN dirty
    ELSE Serialize(FilterTree(TreeBuild([out |-> <<>>, stack |-> <<>>, afe |-> <<>>, next |-> 1],
                                        Tokenize(dirty))))

\* a body sanitization that stops after the xss filter
SanitizeBodyXssOnly(value) == Xss(value)

\* the value sanitizeInput stores in a string field of the body
SanitizeBody(value) == DomPurify(Xss(value))

\* the value sanitizeInput stores in a string query parameter
SanitizeQuery(value) == Xss(value)

----------------------------------------------------------------------------
(* Sessions: express-session in backend/server.js *)

\* session ids are drawn fresh for every new session; at most one per request
SessionIds == 1 .. MaxRequests
NoId == 0
SessionMaxAge == 24 * 60 * 60 * 1000

NoSession == [live |-> FALSE, expires |-> 0, csrfToken |-> <<>>]

\* the store's get: a session whose cookie has expired is gone

\* req.session.id as text
SessionIdText(sid) == <<"s">> \o NumToString(sid)

\* the session is touched when the response ends
Touched(sid, t) ==
    IF sid = NoId THEN sessions
    ELSE [sessions EXCEPT ![sid].expires = t + SessionMaxAge]

----------------------------------------------------------------------------
(* Requests *)

Keys == {"ip1", "ip2"}

\* a body field or query parameter: its name, its JSON type and its text
Field(name, type, text) == [name |-> name, type |-> type, s |-> text]

NoRequest ==
    [pc |-> "idle", ip |-> "", method |-> "", url |-> <<>>, ctype |-> <<>>,
     cookie |-> NoId, token |-> <<>>, malformed |-> FALSE,
     sent |-> <<>>, sentQuery |-> <<>>, body |-> <<>>, query |-> <<>>,
     sid |-> NoId, status |-> 0, retryAfter |-> 0, by |-> "", handler |-> "",
     trace |-> <<>>, generalHit |-> 0, routeHit |-> 0, delay |-> 0,
     respToken |-> <<>>, shape |-> "", fault |-> FALSE, events |-> <<>>]

\* the request moves to stage pc, having passed through middleware mw
Passed(r, mw, pc) == [r EXCEPT !.trace = Append(@, mw), !.pc = pc]

\* a line written while request r is processed: to the console (console.log)
\* or to the winston logger, under a name, with the client address and the
\* URL when the line carries them, and with the body fields it prints
Event(sink, name, ip, url) ==
    [sink |-> sink, name |-> name, ip |-> ip, url |-> url, data |-> <<>>]

\* a line that prints body fields
DataEvent(name, fields) == [Event("console", name, "", <<>>) EXCEPT !.data = fields]

\* console.log or logger call e while request r is processed
Logged(r, e) == [r EXCEPT !.events = Append(@, e)]

\* middleware mw ends the request with a status.  The body is JSON unless the
\* framework's own final handler writes it.  res.json of an error body goes
\* through the wrapper securityLogger installed, res.end through the one
\* requestLogger installed.
Ended(r, mw, status) ==
    LET json == mw # "finalhandler"
        viaJson == IF /\ json /\ status >= 400
                      /\ \E i \in DOMAIN r.trace : r.trace[i] = "sanitizeInput"
                   THEN <<Event("console", "Security Error Response", r.ip, r.url)>>
                   ELSE <<>>
        viaEnd == IF \E i \in DOMAIN r.trace : r.trace[i] = "requestLogger"
                  THEN <<Event("logger", "HTTP_RESPONSE", r.ip, r.url)>>
                  ELSE <<>>
    IN [r EXCEPT !.trace = Append(@, mw), !.pc = "done", !.status = status,
                 !.by = mw, !.shape = IF json THEN "json" ELSE "html",
                 !.events = @ \o viaJson \o viaEnd]

\* tokens a client holding session cookie c can put in a request
TokenChoices(kinds, c) ==
    LET own == IF c = NoId THEN <<>> ELSE sessions[c].csrfToken
        others == {sessions[s].csrfToken : s \in SessionIds \ {c}} \ {<<>>}
    IN (IF "none" \in kinds THEN {<<>>} ELSE {})
       \cup (IF "own" \in kinds /\ own # <<>> THEN {own} ELSE {})
       \cup (IF "other" \in kinds THEN others ELSE {})
       \cup (IF "badsig" \in kinds /\ own # <<>>
             THEN {<<own[1], Dot, HmacHex("attacker-key", own[1].p)>>} ELSE {})


\* a CSRF stage that lets no method through unchecked
SafeMethodsNone == {}

\* methods that carry no body and change no state
SafeMethods == {"GET", "HEAD", "OPTIONS"}

\* the session cookies a client can send: none, or one it was given; a
\* returning client sends the cookie it holds
Cookies(returning) ==
    LET held == {s \in SessionIds : sessions[s].live}
    IN IF returning /\ held # {} THEN held ELSE {NoId} \cup held

\* a client sends a request
Arrive(limit, ips, targets, ctypes, returning, kinds, bodies, queries) ==
    /\ req.pc \in {"idle", "done"}
    /\ served < limit
    /\ \E ip \in ips, target \in targets, c \in Cookies(returning), q \in queries :
          \E ct \in (IF target[1] \in SafeMethods THEN {<<>>} ELSE ctypes),
             b \in (IF target[1] \in SafeMethods THEN {<<>>} ELSE bodies),
             tok \in TokenChoices(kinds, c) :
             req' = [NoRequest EXCEPT !.pc = "general", !.ip = ip,
                            !.method = target[1], !.url = target[2], !.ctype = ct, !.cookie = c, !.token = tok,
                            !.sent = b, !.sentQuery = q, !.query = q]
    /\ served' = served + 1
    /\ UNCHANGED <<now, store, slow, sessions, nonce, ticks, flight, admitted, provider, local>>

\* the clock advances by d milliseconds while the request is at one of stages
Tick(steps, stages) ==
    /\ ticks < MaxTicks
    /\ req.pc \in stages
    /\ \E d \in steps : now' = now + d
    /\ ticks' = ticks + 1
    /\ UNCHANGED <<req, store, slow, sessions, nonce, served, flight, admitted, provider, local>>

----------------------------------------------------------------------------
(* The middleware chain of backend/server.js, in the order of its app.use  *)
(* calls.  helmet, cors, morgan, cookieParser and the debug logger pass    *)
(* every request on and leave the state below alone; securityLogger only   *)
(* wraps res.json, which Ended accounts for.                               *)

\* the app.use call a limiter counts a request under
Mounts == {"all", "register", "login", "logout"}

MountOf(l, url) ==
    CASE l = "general" -> "all"
      [] Mounted(UrlRegister, url) -> "register"
      [] Mounted(UrlLogin, url) -> "login"
      [] OTHER -> "logout"

\* one express-rate-limit middleware for limiter l, the request moving on to pc
RateLimit(l, mw, pc) ==
    IF Skip(l, req.url)
    THEN /\ req' = Passed(req, mw, pc)
         /\ UNCHANGED <<store, sessions, admitted>>
    ELSE LET rec == Increment(store[l][req.ip], WindowMs(l), now)
             counted == IF l = "general" THEN [req EXCEPT !.generalHit = rec.hits]
                        ELSE [req EXCEPT !.routeHit = rec.hits]
             before == IF rec.hits = 1 THEN [m \in Mounts |-> 0] ELSE admitted[l][req.ip]
         IN /\ store' = [store EXCEPT ![l][req.ip] = rec]
            /\ admitted' = [admitted EXCEPT ![l][req.ip] =
                                IF rec.hits > Max(l) THEN before
                                ELSE [before EXCEPT ![MountOf(l, req.url)] = @ + 1]]
            /\ IF rec.hits > Max(l)
               THEN /\ req' = [Ended(Logged(counted,
                                       Event("console",
                                             IF IsSuspiciousPath(req.url)
                                             THEN "SECURITY ALERT"
                                             ELSE "Rate limit exceeded",
                                             req.ip, req.url)), mw, 429) EXCEPT
                                   !.retryAfter = RetryAfter(rec, now)]
                    /\ sessions' = Touched(req.sid, now)
               ELSE /\ req' = Passed(counted, mw, pc)
                    /\ UNCHANGED sessions

\* app.use(generalLimiter)
GeneralLimiter ==
    /\ req.pc = "general"
    /\ RateLimit("general", "generalLimiter", "speed")
    /\ UNCHANGED <<now, slow, nonce, served, ticks, flight, provider, local>>

DelayAfter == 2
DelayMs == 500
MaxDelayMs == 20000
SpeedWindowMs == 15 * 60 * 1000

\* a delay that grows with every hit above delayAfter and is never clamped
SlowDownDelayUncapped(hits) ==
    IF hits > DelayAfter THEN (hits - DelayAfter) * DelayMs ELSE 0

\* the time express-slow-down holds back the hits-th request of a window
SlowDownDelay(hits) ==
    IF hits > DelayAfter
    THEN (IF (hits - DelayAfter) * DelayMs < MaxDelayMs
          THEN (hits - DelayAfter) * DelayMs ELSE MaxDelayMs)
    ELSE 0

\* app.use(speedLimiter)
SpeedLimiter ==
    /\ req.pc = "speed"
    /\ LET rec == Increment(slow[req.ip], SpeedWindowMs, now)
       IN /\ slow' = [slow EXCEPT ![req.ip] = rec]
          /\ req' = [Passed(req, "speedLimiter", "log") EXCEPT
                        !.delay = SlowDownDelay(rec.hits)]
    /\ UNCHANGED <<now, store, sessions, nonce, served, ticks, flight, admitted, provider, local>>

\* app.use(requestLogger), then morgan and cookieParser.  The logger is
\* called outside any try block: when it throws (fault), the framework hands
\* the error to errorLogger and the global error handler, which log through
\* the same logger and answer 500.
RequestLogger(faults) ==
    /\ req.pc = "log"
    /\ \E fault \in faults :
          req' = IF fault
                 THEN [Ended(req, "errorHandler", 500) EXCEPT !.fault = TRUE]
                 ELSE Passed(Logged(req, Event("logger", "HTTP_REQUEST", req.ip, req.url)),
                             "requestLogger", "contentType")
    /\ UNCHANGED <<now, store, slow, sessions, nonce, served, ticks, flight, admitted, provider, local>>

\* a check that looks at the content type of POST requests only
InvalidContentTypePostOnly(method, contentType) ==
    /\ method = "POST"
    /\ \/ contentType = <<>>
       \/ /\ ~ Includes(contentType, <<"application/json">>)
          /\ ~ Includes(contentType, <<"application/x-www-form-urlencoded">>)

\* the condition validateContentType answers 400 on; the Content-Type header
\* is a sequence of atoms, <<>> when the request has none
InvalidContentType(method, contentType) ==
    /\ method \in {"POST", "PUT", "PATCH"}
    /\ \/ contentType = <<>>
       \/ /\ ~ Includes(contentType, <<"application/json">>)
          /\ ~ Includes(contentType, <<"application/x-www-form-urlencoded">>)

\* app.use(validateContentType)
ValidateContentType ==
    /\ req.pc = "contentType"
    /\ IF InvalidContentType(req.method, req.ctype)
       THEN req' = Ended(Logged(req, Event("console", "Invalid content type", "", <<>>)),
                         "validateContentType", 400)
       ELSE req' = Passed(req, "validateContentType", "parse")
    /\ UNCHANGED <<now, store, slow, sessions, nonce, served, ticks, flight, admitted, provider, local>>

\* app.use(express.json()), app.use(express.urlencoded()): text that does not
\* parse goes to the error handler, which answers 400
BodyParser ==
    /\ req.pc = "parse"
    /\ IF req.malformed
       THEN req' = Ended(Logged(Logged(req,
                                Event("logger", "APPLICATION_ERROR", req.ip, req.url)),
                                Event("logger", "Global application error", req.ip, req.url)),
                         "bodyParser", 400)
       ELSE req' = [Passed(req, "bodyParser", "session") EXCEPT !.body = req.sent]
    /\ UNCHANGED <<now, store, slow, sessions, nonce, served, ticks, flight, admitted, provider, local>>

\* app.use(session(...)): the cookie's session when the store still has it,
\* a new session otherwise
Session ==
    /\ req.pc = "session"
    /\ IF req.cookie # NoId /\ sessions[req.cookie].live /\ sessions[req.cookie].expires > now
       THEN /\ req' = [Passed(req, "session", "addToken") EXCEPT !.sid = req.cookie]
            /\ UNCHANGED sessions
       ELSE \E s \in SessionIds :
               /\ ~ sessions[s].live
               /\ \A o \in SessionIds : ~ sessions[o].live => s <= o
               /\ req' = [Passed(req, "session", "addToken") EXCEPT !.sid = s]
               /\ sessions' = [sessions EXCEPT ![s] =
                                   [live |-> TRUE, expires |-> now + SessionMaxAge,
                                    csrfToken |-> <<>>]]
    /\ UNCHANGED <<now, store, slow, nonce, served, ticks, flight, admitted, provider, local>>

\* a session given a new token whenever one is asked for
SessionTokenAlwaysFresh(s, t, n) == GenerateToken(SessionIdText(s), t, n)

\* if (!req.session.csrfToken) req.session.csrfToken = generateToken(...):
\* the token of session s after that statement
SessionToken(s, t, n) ==
    IF sessions[s].csrfToken = <<>> THEN GenerateToken(SessionIdText(s), t, n)
    ELSE sessions[s].csrfToken

\* app.use(addCSRFToken): the session's token is made once and then reused
AddCSRFToken ==
    /\ req.pc = "addToken"
    /\ LET fresh == sessions[req.sid].csrfToken = <<>>
           token == SessionToken(req.sid, now, nonce)
       IN /\ sessions' = [sessions EXCEPT ![req.sid].csrfToken = token]
          /\ nonce' = IF fresh THEN nonce + 1 ELSE nonce
          /\ req' = [Passed(req, "addCSRFToken", "sanitize") EXCEPT !.respToken = token]
    /\ UNCHANGED <<now, store, slow, served, ticks, flight, admitted, provider, local>>

\* a loop that sanitizes the strings inside objects and arrays as well
SanitizeFieldsDeep(fields, where) ==
    [i \in 1 .. Len(fields) |->
        IF fields[i].type \in {"string", "object"}
        THEN [fields[i] EXCEPT !.s = IF where = "body" THEN SanitizeBody(@)
                                        ELSE SanitizeQuery(@)]
        ELSE fields[i]]

\* the loop over the top-level keys of req.body or req.query; a field of
\* type object or array holds its text nested inside
SanitizeFields(fields, where) ==
    [i \in 1 .. Len(fields) |->
        IF fields[i].type = "string"
        THEN [fields[i] EXCEPT !.s = IF where = "body" THEN SanitizeBody(@)
                                        ELSE SanitizeQuery(@)]
        ELSE fields[i]]

\* the routing stage a request enters after the application-level middleware
RouteStage(r) ==
    CASE r.method = "GET" /\ RouteIs(UrlHealth, r.url) -> "health"
      [] r.method = "GET" /\ RouteIs(UrlCsrfToken, r.url) -> "csrfToken"
      [] RouteLimiter(r.url) # "" -> "routeLimit"
      [] OTHER -> "router"

\* the console lines of sanitizeInput, securityLogger and the debug logger
\* for a request with the given sanitized body: sanitizeInput prints every
\* string field after it has stored the sanitized value in it, the debug
\* logger prints req.body
PipelineLog(r, body) ==
    LET IsString(f) == f.type = "string"
        strings == SelectSeq(body, IsString)
    IN <<Event("console", "Sanitizing input for", "", r.url)>>
       \o [i \in 1 .. Len(strings) |-> DataEvent("Sanitized", <<strings[i]>>)]
       \o <<Event("console", "Security Check", r.ip, r.url),
            DataEvent("request debug", body)>>

\* app.use(sanitizeInput), then securityLogger and the debug logger
SanitizeInput ==
    /\ req.pc = "sanitize"
    /\ req' = [Passed(req, "sanitizeInput", RouteStage(req)) EXCEPT
                  !.body = SanitizeFields(@, "body"),
                  !.query = SanitizeFields(@, "query"),
                  !.events = @ \o PipelineLog(req, SanitizeFields(req.body, "body"))]
    /\ UNCHANGED <<now, store, slow, sessions, nonce, served, ticks, flight, admitted, provider, local>>

\* what a route handler answers is its own business

\* a route handler takes the request and answers it
Handled(r, name, status) ==
    [Ended(r, name, status) EXCEPT !.handler = name]

\* app.get('/api/health', ...)
Health ==
    /\ req.pc = "health"
    /\ req' = Handled(Logged(req, Event("logger", "Health check requested", req.ip, <<>>)),
                       "health", 200)
    /\ sessions' = Touched(req.sid, now)
    /\ UNCHANGED <<now, store, slow, nonce, served, ticks, flight, admitted, provider, local>>

\* app.get('/api/csrf-token', getCSRFToken)
GetCSRFToken ==
    /\ req.pc = "csrfToken"
    /\ LET fresh == sessions[req.sid].csrfToken = <<>>
           token == SessionToken(req.sid, now, nonce)
       IN /\ sessions' = [Touched(req.sid, now) EXCEPT ![req.sid].csrfToken = token]
          /\ nonce' = IF fresh THEN nonce + 1 ELSE nonce
          /\ req' = [Handled(req, "getCSRFToken", 200) EXCEPT !.respToken = token]
    /\ UNCHANGED <<now, store, slow, served, ticks, flight, admitted, provider, local>>

\* app.use('/api/register', registerLimiter), app.use('/api/login', authLimiter),
\* app.use('/api/logout', authLimiter)
RouteLimit ==
    /\ req.pc = "routeLimit"
    /\ RateLimit(RouteLimiter(req.url),
                 IF RouteLimiter(req.url) = "register" THEN "registerLimiter"
                 ELSE "authLimiter",
                 "csrf")
    /\ UNCHANGED <<now, slow, nonce, served, ticks, flight, provider, local>>

\* the routes verifyCSRFToken is mounted on
ProtectedRoute(url) ==
    Mounted(UrlRegister, url) \/ Mounted(UrlLogin, url) \/ Mounted(UrlLogout, url)

\* the token a request presents: header, then body._csrf, then query._csrf
PresentedToken(r) == r.token

\* app.use(['/api/register', '/api/login', '/api/logout'], verifyCSRFToken)
VerifyCSRFToken ==
    /\ req.pc = "csrf"
    /\ IF \/ req.method \in SafeMethods
          \/ Includes(req.url, <<"/", "health">>)
          \/ VerifyToken(PresentedToken(req), SessionIdText(req.sid), now)
       THEN /\ req' = Passed(req, "verifyCSRFToken", "router")
            /\ UNCHANGED sessions
       ELSE /\ req' = Ended(Logged(req, Event("console", "CSRF token verification failed",
                                                req.ip, req.url)),
                              "verifyCSRFToken", 403)
            /\ sessions' = Touched(req.sid, now)
    /\ UNCHANGED <<now, store, slow, nonce, served, ticks, flight, admitted, provider, local>>

\* the routes of routes/auth-new.js and routes/supabase-auth.js under /api
Routes ==
    {[method |-> "POST", route |-> UrlRegister, name |-> "register"],
     [method |-> "POST", route |-> UrlLogin, name |-> "login"],
     [method |-> "POST", route |-> UrlLogout, name |-> "logout"],
     [method |-> "GET", route |-> UrlUser, name |-> "user"],
     [method |-> "GET", route |-> UrlSupabaseHealth, name |-> "supabase-health"],
     [method |-> "PUT", route |-> UrlProfile, name |-> "profile"]}

Matching(r) == {x \in Routes : x.method = r.method /\ RouteIs(x.route, r.url)}

\* app.use('/api', authRoutes), app.use('/api', supabaseAuthRoutes): a route
\* of the routers takes the request
Router ==
    /\ req.pc = "router"
    /\ \E x \in Matching(req), st \in {200, 401} :
          req' = Handled(req, x.name, st)
    /\ sessions' = Touched(req.sid, now)
    /\ UNCHANGED <<now, store, slow, nonce, served, ticks, flight, admitted, provider, local>>

\* app.use('/api/*', ...) answers 404 in JSON; any other path falls through
\* to the framework's own 404
NotFound ==
    /\ req.pc = "router"
    /\ Matching(req) = {}
    /\ req' = IF Mounted(<<"/", "api">>, req.url) /\ PathOf(req.url) # <<"/", "api">>
               THEN Ended(Logged(req, Event("logger", "Route not found", req.ip, req.url)),
                          "apiNotFound", 404)
               ELSE Ended(req, "finalhandler", 404)
    /\ sessions' = Touched(req.sid, now)
    /\ UNCHANGED <<now, store, slow, nonce, served, ticks, flight, admitted, provider, local>>

----------------------------------------------------------------------------
(* Requests of one client key reaching one limiter together.  The limiter  *)
(* awaits store.increment(key) and decides when it is resumed with the     *)
(* total the store returned; the store's increment runs to completion.     *)

NoFlight == [l |-> "", ip |-> "", base |-> NoRecord, reqs |-> <<>>]

\* k requests of a client are at limiter l, none counted yet
Dispatch(limit, ls, ks) ==
    /\ \A i \in DOMAIN flight.reqs : flight.reqs[i].pc \in {"admitted", "rejected"}
    /\ \E l \in ls, k \in ks :
          /\ served + k <= limit
          /\ served' = served + k
          /\ flight' = [l |-> l, ip |-> "ip1", base |-> store[l]["ip1"],
                        reqs |-> [i \in 1 .. k |-> [pc |-> "arrived", hits |-> 0]]]
    /\ UNCHANGED <<now, req, store, slow, sessions, nonce, ticks, admitted, provider, local>>

\* a store that counts from the record as it was when the requests arrived
ReadAtDispatch(i) == flight.base

\* the record the store's increment reads when it runs for request i
Read(i) == store[flight.l][flight.ip]

\* store.increment(key) for request i: the record is read, counted and
\* written in one turn, and the request is given the new total
Count ==
    \E i \in DOMAIN flight.reqs :
       /\ flight.reqs[i].pc = "arrived"
       /\ LET rec == Increment(Read(i), WindowMs(flight.l), now)
          IN /\ store' = [store EXCEPT ![flight.l][flight.ip] = rec]
             /\ flight' = [flight EXCEPT !.reqs[i] = [pc |-> "counted", hits |-> rec.hits]]
       /\ UNCHANGED <<now, req, slow, sessions, nonce, served, ticks, admitted, provider, local>>

\* the limiter resumes request i with its total: over max it answers 429
Decide ==
    \E i \in DOMAIN flight.reqs :
       /\ flight.reqs[i].pc = "counted"
       /\ flight' = [flight EXCEPT !.reqs[i].pc =
                        IF flight.reqs[i].hits > Max(flight.l) THEN "rejected"
                        ELSE "admitted"]
       /\ UNCHANGED <<now, req, store, slow, sessions, nonce, served, ticks, admitted, provider, local>>

----------------------------------------------------------------------------
(* The frontend's AuthProvider (contexts/AuthContext.jsx).  The state      *)
(* updates an async function makes between two awaits are committed        *)
(* together; every await is a point where other callbacks run.  A task is  *)
(* an async call that is waiting for Supabase to answer.                   *)

backend == <<now, req, store, slow, sessions, nonce, served, ticks, flight, admitted>>

Users == {1, 2}

\* user ids double as the profile rows of the users; 0 is no row
NoData == 0

\* useState(null)
NullUser == [null |-> TRUE, id |-> 0, profile |-> NoData]

\* session.user
SessionUser(u) == [null |-> FALSE, id |-> u, profile |-> NoData]

\* prevUser => ({ ...prevUser, profile: data }): spreading null gives an
\* object with no property but profile
WithProfile(prevUser, data) == [null |-> FALSE, id |-> prevUser.id, profile |-> data]

Task(n, pc, u, event) == [n |-> n, pc |-> pc, userId |-> u, event |-> event]

\* the provider after mounting: getSession() has been called, the
\* auth-state listener is subscribed
ProviderMounted ==
    [isAuthenticated |-> FALSE, user |-> NullUser, loading |-> TRUE,
     tasks |-> {Task(0, "getSession", 0, "INITIAL")}, events |-> 0]

\* getSession: supabase.auth.getSession() answers with a session or without
GetSession ==
    /\ \E t \in provider.tasks :
          /\ t.pc = "getSession"
          /\ \E u \in Users \cup {0} :
                provider' =
                   IF u # 0
                   THEN [provider EXCEPT !.user = SessionUser(u), !.isAuthenticated = TRUE,
                                         !.tasks = (@ \ {t}) \cup {Task(t.n, "fetch", u, t.event)}]
                   ELSE [provider EXCEPT !.user = NullUser, !.isAuthenticated = FALSE,
                                         !.loading = FALSE, !.tasks = @ \ {t}]
    /\ UNCHANGED <<backend, local>>

\* the onAuthStateChange callback, up to its first await
AuthStateChange ==
    /\ provider.events < MaxAuthEvents
    /\ \E event \in {"SIGNED_IN", "TOKEN_REFRESHED", "SIGNED_OUT"}, u \in Users :
          provider' =
             IF event # "SIGNED_OUT"
             THEN [provider EXCEPT !.user = SessionUser(u), !.isAuthenticated = TRUE,
                                   !.tasks = @ \cup {Task(provider.events + 1, "fetch", u, event)},
                                   !.events = @ + 1]
             ELSE [provider EXCEPT !.user = NullUser, !.isAuthenticated = FALSE,
                                   !.loading = FALSE, !.events = @ + 1]
    /\ UNCHANGED <<backend, local>>

\* fetchUserProfile resumes with the answer of the profiles query: the row
\* of the user, or none; its caller goes on to ensureUserProfile or finishes
FetchUserProfile ==
    /\ \E t \in provider.tasks :
          /\ t.pc = "fetch"
          /\ \E data \in {NoData, t.userId} :
                LET merged == IF data # NoData
                              THEN [provider EXCEPT !.user = WithProfile(@, data)]
                              ELSE provider
                IN provider' =
                      IF t.event \in {"SIGNED_IN", "TOKEN_REFRESHED"}
                      THEN [merged EXCEPT !.tasks = (@ \ {t})
                                              \cup {Task(t.n, "ensure", t.userId, t.event)}]
                      ELSE [merged EXCEPT !.tasks = @ \ {t}, !.loading = FALSE]
    /\ UNCHANGED <<backend, local>>

\* ensureUserProfile has returned: the callback ends with setLoading(false)
EnsureUserProfile ==
    /\ \E t \in provider.tasks :
          /\ t.pc = "ensure"
          /\ provider' = [provider EXCEPT !.tasks = @ \ {t}, !.loading = FALSE]
    /\ UNCHANGED <<backend, local>>

----------------------------------------------------------------------------
(* The frontend's attempt limiter (lib/security.js, SecurityUtils           *)
(* checkRateLimit and clearRateLimit) as Login.handleSubmit uses it.       *)

MaxAttempts == 5
AttemptWindowMs == 15 * 60 * 1000

NoCheck == [allowed |-> TRUE, waitTime |-> 0, attemptsRemaining |-> 0]

\* localStorage is empty and no check has been made
NoAttempts == [attempts |-> <<>>, rateCheck |-> NoCheck, allowedAt |-> <<>>, calls |-> 0]

\* a filter that keeps an attempt that is exactly windowMs old
RecentAtWindow(attempts, t, windowMs) ==
    LET Keep(timestamp) == t - timestamp <= windowMs
    IN SelectSeq(attempts, Keep)

\* attempts.filter(timestamp => now - timestamp < windowMs)
Recent(attempts, t, windowMs) ==
    LET Keep(timestamp) == t - timestamp < windowMs
    IN SelectSeq(attempts, Keep)

\* Math.min(...attempts) of a list that is not empty
MinOf(attempts) ==
    CHOOSE x \in {attempts[i] : i \in DOMAIN attempts} :
       \A i \in DOMAIN attempts : x <= attempts[i]

\* checkRateLimit('login', maxAttempts, windowMs)
CheckRateLimit(maxAttempts, windowMs) ==
    /\ local.calls < MaxChecks
    /\ LET attempts == Recent(local.attempts, now, windowMs)
       IN IF Len(attempts) >= maxAttempts
          THEN local' = [local EXCEPT
                            !.rateCheck =
                                [allowed |-> FALSE,
                                 waitTime |-> (windowMs - (now - MinOf(attempts)) + 999) \div 1000,
                                 attemptsRemaining |-> 0],
                            !.calls = @ + 1]
          ELSE local' = [attempts |-> Append(attempts, now),
                         rateCheck |-> [allowed |-> TRUE, waitTime |-> 0,
                                        attemptsRemaining |-> maxAttempts - (Len(attempts) + 1)],
                         allowedAt |-> Append(local.allowedAt, now),
                         calls |-> local.calls + 1]
    /\ UNCHANGED <<backend, provider>>

\* clearRateLimit('login'), which handleSubmit calls after a login that
\* succeeded; the history starts again
ClearRateLimit ==
    /\ local.rateCheck.allowed
    /\ local.attempts # <<>>
    /\ local' = [local EXCEPT !.attempts = <<>>, !.allowedAt = <<>>]
    /\ UNCHANGED <<backend, provider>>

----------------------------------------------------------------------------
(* The server *)

Init ==
    /\ now = 0
    /\ req = NoRequest
    /\ store = [l \in Limiters |-> [k \in Keys |-> NoRecord]]
    /\ slow = [k \in Keys |-> NoRecord]
    /\ sessions = [s \in SessionIds |-> NoSession]
    /\ nonce = 0
    /\ served = 0
    /\ ticks = 0
    /\ flight = NoFlight
    /\ admitted = [l \in Limiters |-> [k \in Keys |-> [m \in Mounts |-> 0]]]
    /\ provider = ProviderMounted
    /\ local = NoAttempts

Between == {"idle", "done"}

Client ==
    Arrive(MaxRequests, {"ip1"},
           {"GET", "POST"} \X {UrlLogin, UrlLoginHealth, UrlHealth, UrlEnv,
                               UrlCsrfToken, UrlUnmapped},
           {<<>>, <<"application/json">>}, TRUE, {"none", "own", "badsig"},
           {<<>>, <<Field("username", "string",
                         <<"<", "span", " ", "class", "=", "\"", "c", "\"", ">", "a",
                           "<", "/", "span", ">">>)>>}, {<<>>})

Next ==
    \/ Client
    \/ Tick({MaxAge}, Between)
    \/ GeneralLimiter
    \/ SpeedLimiter
    \/ RequestLogger({FALSE})
    \/ ValidateContentType
    \/ BodyParser
    \/ Session
    \/ AddCSRFToken
    \/ SanitizeInput
    \/ Health
    \/ GetCSRFToken
    \/ RouteLimit
    \/ VerifyCSRFToken
    \/ Router
    \/ NotFound

Spec == Init /\ [][Next]_vars

\* the middleware a request has passed through
Ran(mw) == \E i \in DOMAIN req.trace : req.trace[i] = mw

\* C3: a non-safe-method request to a protected route (/api/register,
\* /api/login, /api/logout) is handed on to its route handler only if the
\* token it presents verifies for its session; a request the CSRF stage ends
\* gets 403 and no handler.
C3_HandlerOnlyWithValidToken ==
    /\ (/\ req.method \notin SafeMethods
        /\ ProtectedRoute(req.url)
        /\ req.pc = "router")
       => VerifyToken(PresentedToken(req), SessionIdText(req.sid), now)
    /\ req.by = "verifyCSRFToken" => (req.status = 403 /\ req.handler = "")

\* C7: every request whose path contains a threat signature is answered
\* with 404, whatever its method and the client's rate-limit state, and never
\* with 429.
C7_SuspiciousPathAnswered404 ==
    (req.pc = "done" /\ IsSuspiciousPath(PathOf(req.url))) => req.status = 404

\* the stage of the specified pipeline a middleware belongs to, 0 when none
StageRank(mw) ==
    CASE mw = "threatDetection" -> 1
      [] mw \in {"generalLimiter", "speedLimiter", "authLimiter", "registerLimiter"} -> 2
      [] mw = "bodyParser" -> 3
      [] mw = "verifyCSRFToken" -> 4
      [] mw = "sanitizeInput" -> 5
      [] mw \in {"health", "getCSRFToken"} \cup {x.name : x \in Routes} -> 6
      [] OTHER -> 0

\* C8: the stages a request goes through run in the order threat filter,
\* rate and speed control, body parsing, anti-forgery verification, input
\* sanitization, route handler: rate counting never precedes the threat check
\* and sanitization never precedes the anti-forgery check.
C8_StageOrder ==
    /\ \A i, j \in DOMAIN req.trace :
          (i < j /\ StageRank(req.trace[i]) > 0 /\ StageRank(req.trace[j]) > 0)
          => StageRank(req.trace[i]) <= StageRank(req.trace[j])
    /\ (Ran("generalLimiter") => Ran("threatDetection"))

\* C19: the CSRF stage never rejects a request with a safe method (GET,
\* HEAD, OPTIONS), whatever token it carries, and never runs for a request
\* whose route is outside /api/register, /api/login and /api/logout.
C19_CsrfStageScope ==
    /\ (req.method \in {"GET", "HEAD", "OPTIONS"} => req.by # "verifyCSRFToken")
    /\ (Ran("verifyCSRFToken")
          => \E p \in {UrlRegister, UrlLogin, UrlLogout} : Mounted(p, req.url))

\* a GET of a protected route carrying a token with a forged signature went
\* through the CSRF stage
C19_Witness ==
    /\ req.method = "GET" /\ Mounted(UrlLogin, req.url)
    /\ req.token # <<>>
    /\ ~ VerifyToken(req.token, SessionIdText(req.sid), now)
    /\ Ran("verifyCSRFToken") /\ req.by # "verifyCSRFToken"

\* a POST without a token to a route outside the protected set was answered
\* without the CSRF stage having run
C19_WitnessOutside ==
    /\ req.method = "POST" /\ req.url = UrlUnmapped /\ req.token = <<>>
    /\ req.pc = "done" /\ req.by = "apiNotFound" /\ ~ Ran("verifyCSRFToken")

\* C13: every rejection by a stage of the pipeline (429 by a rate limiter,
\* 404 by the threat filter, 403 by the CSRF stage, 400 for a bad content
\* type or body) ends the request and leaves a record of the matching kind
\* that carries the client address and the URL.  A line on any sink counts.
C13_RejectionRecorded ==
    (/\ req.pc = "done"
     /\ req.by \in {"generalLimiter", "authLimiter", "registerLimiter",
                    "threatDetection", "verifyCSRFToken", "validateContentType",
                    "bodyParser"})
    => \E i \in DOMAIN req.events :
          /\ req.events[i].name \in
                (CASE req.status = 429 -> {"Rate limit exceeded", "SECURITY ALERT"}
                   [] req.status = 404 -> {"THREAT DETECTED"}
                   [] req.status = 403 -> {"CSRF token verification failed"}
                   [] req.status = 400 -> {"Invalid content type",
                                           "Global application error"}
                   [] OTHER -> {})
          /\ req.events[i].ip = req.ip
          /\ req.events[i].url = req.url

\* C15: a request for a path that holds a credential-file signature (/.env)
\* is answered like a request for a route of the API nothing is mapped to:
\* with the same status, 404, and a body of the same shape, the JSON object
\* of the application's handler for unknown routes.
C15_ThreatLikeUnmapped ==
    (req.pc = "done" /\ req.method = "GET")
    => /\ (req.url = UrlUnmapped => (req.status = 404 /\ req.shape = "json"))
       /\ (Includes(ToLowerCase(PathOf(req.url)), <<".env">>)
             => (req.status = 404 /\ req.shape = "json"))

\* C29: the threat classifier flags no route the server maps: the path of
\* every request a route handler takes (/api/health, /api/csrf-token and the
\* routes of the routers) is one isSuspiciousPath returns false for, so the
\* threat filter would never answer 404 for it.
C29_MappedRoutesNotFlagged ==
    req.handler # "" => ~ IsSuspiciousPath(PathOf(req.url))

----------------------------------------------------------------------------
(* One client sending a burst to the authentication routes, the clock       *)
(* standing still: every request falls inside one window.                  *)

BurstClient ==
    Arrive(Max("auth") + MaxBurst, {"ip1"}, {"POST"} \X {UrlLogin, UrlLogout},
           {<<"application/json">>, <<"text/plain">>}, TRUE, {"none", "own"},
           {<<>>}, {<<>>})

NextBurst ==
    \/ BurstClient
    \/ GeneralLimiter
    \/ SpeedLimiter
    \/ RequestLogger({FALSE})
    \/ ValidateContentType
    \/ BodyParser
    \/ Session
    \/ AddCSRFToken
    \/ SanitizeInput
    \/ RouteLimit
    \/ VerifyCSRFToken
    \/ Router

SpecBurst == Init /\ [][NextBurst]_vars

\* C1: for each limiter class and client key, the first max requests the
\* client sends to a route of the class inside one window are admitted by the
\* limiter, and request max + 1 inside the same window is rejected with 429
\* and a retry-after greater than 0.  In SpecBurst the n-th request taken is
\* the client's n-th request to an authentication route inside one window.
C1_BurstRejectedAtMaxPlusOne ==
    /\ (served <= Max("auth") => req.by # "authLimiter")
    /\ (/\ served = Max("auth") + 1
        /\ req.pc = "done"
        /\ req.ctype = <<"application/json">>)
       => (req.status = 429 /\ req.retryAfter > 0)

\* C25: /api/login and /api/logout share one budget.  For one client key the
\* requests to login plus the requests to logout that authLimiter admits in
\* one window are never more than 5; every request the login or the logout
\* handler takes was counted and admitted by authLimiter; and a request to
\* either route that finds the budget used up is answered 429.
C25_SharedAuthBudget ==
    /\ \A k \in Keys :
          admitted["auth"][k]["login"] + admitted["auth"][k]["logout"] <= 5
    /\ (req.handler \in {"login", "logout"}
          => (Ran("authLimiter") /\ req.routeHit >= 1 /\ req.routeHit <= 5))
    /\ (/\ req.routeHit > 0
        /\ admitted["auth"][req.ip]["login"] + admitted["auth"][req.ip]["logout"]
              < req.routeHit)
       => (req.by = "authLimiter" /\ req.status = 429)

\* three logins and two logouts were admitted and the next login is rejected
C25_Witness ==
    /\ admitted["auth"]["ip1"]["login"] = 3
    /\ admitted["auth"]["ip1"]["logout"] = 2
    /\ req.url = UrlLogin /\ req.by = "authLimiter" /\ req.status = 429

----------------------------------------------------------------------------
(* One client polling the health endpoint, often enough inside one window  *)
(* for the delay to reach its clamp, the clock advancing up to and across  *)
(* the window boundary.                                                    *)

SpeedClient ==
    Arrive(MaxSpeedRequests, {"ip1"}, {<<"GET", UrlHealth>>}, {<<>>}, TRUE,
           {"none"}, {<<>>}, {<<>>})

NextSpeed ==
    \/ SpeedClient
    \/ Tick({SpeedWindowMs - 1, 1}, Between)
    \/ GeneralLimiter
    \/ SpeedLimiter
    \/ RequestLogger({FALSE})
    \/ ValidateContentType
    \/ BodyParser
    \/ Session
    \/ AddCSRFToken
    \/ SanitizeInput
    \/ Health

SpecSpeed == Init /\ [][NextSpeed]_vars

C11_WitnessThird ==
    Ran("speedLimiter") /\ req.generalHit = 3 /\ req.delay = 500 /\ served > 3

----------------------------------------------------------------------------
(* A client of the health endpoint, the login route and an unmapped route, *)
(* served while the logger may throw when requestLogger calls it.          *)

Credentials ==
    <<Field("username", "string", <<"alice">>), Field("password", "string", <<"hunter2">>)>>

LogClient ==
    Arrive(MaxRequests, {"ip1"},
           {<<"GET", UrlHealth>>, <<"POST", UrlLogin>>, <<"GET", UrlUnmapped>>},
           {<<"application/json">>}, TRUE, {"none", "own"}, {<<>>, Credentials}, {<<>>})

NextLog ==
    \/ LogClient
    \/ GeneralLimiter
    \/ SpeedLimiter
    \/ RequestLogger(BOOLEAN)
    \/ ValidateContentType
    \/ BodyParser
    \/ Session
    \/ AddCSRFToken
    \/ SanitizeInput
    \/ Health
    \/ RouteLimit
    \/ VerifyCSRFToken
    \/ Router
    \/ NotFound

SpecLog == Init /\ [][NextLog]_vars

\* C12: a failure of the event recorder while a request is processed never
\* changes the outcome of the request: a request during which the logger
\* threw is answered as it would be with a working logger, never by the
\* error handler and never with the 500 of an internal error.
C12_RecorderFailureAbsorbed ==
    req.fault => (req.by # "errorHandler" /\ req.status # 500)

\* C23: no line written while a request goes through the pipeline (the
\* sanitization log, the request debug log) holds the value of a password
\* field of the request body.
C23_PasswordNotLogged ==
    \A i \in DOMAIN req.events, k \in DOMAIN req.sent :
       req.sent[k].name = "password"
       => \A j \in DOMAIN req.events[i].data :
             req.events[i].data[j].s # req.sent[k].s

----------------------------------------------------------------------------
(* A client posting to the login route and to an unmapped route, with and  *)
(* without an accepted content type and token, beyond the login budget:    *)
(* rejections of every kind the pipeline produces.                         *)

RejectClient ==
    Arrive(Max("auth") + MaxBurst, {"ip1"}, {"POST"} \X {UrlLogin, UrlUnmapped},
           {<<"application/json">>, <<"text/plain">>}, TRUE, {"none", "own"},
           {<<>>}, {<<>>})

NextReject ==
    \/ RejectClient
    \/ Tick({WindowMs("auth") - 1, 1}, Between)
    \/ GeneralLimiter
    \/ SpeedLimiter
    \/ RequestLogger({FALSE})
    \/ ValidateContentType
    \/ BodyParser
    \/ Session
    \/ AddCSRFToken
    \/ SanitizeInput
    \/ RouteLimit
    \/ VerifyCSRFToken
    \/ Router
    \/ NotFound

SpecReject == Init /\ [][NextReject]_vars

\* C14: a Retry-After value is on every 429 response and on no 404, 403 or
\* 400 response of the pipeline (retryAfter is 0 when the header is absent).
C14_RetryAfterOnlyOn429 ==
    req.pc = "done" =>
       /\ (req.status = 429 => req.retryAfter > 0)
       /\ (req.status \in {400, 403, 404} => req.retryAfter = 0)

\* a login attempt rejected with 429 one millisecond before its window ends
C14_Witness ==
    /\ req.pc = "done" /\ req.status = 429 /\ req.retryAfter = 1
    /\ store["auth"][req.ip].reset - now = 1

\* the client over its login budget is answered 404, 403 or 400 elsewhere
C14_WitnessOther ==
    /\ req.pc = "done" /\ req.status \in {400, 403, 404}
    /\ store["auth"][req.ip].hits > Max("auth") /\ store["auth"][req.ip].reset > now

----------------------------------------------------------------------------
(* A client sending its requests in groups that are in the same limiter at *)
(* the same time, inside one window.                                       *)

NextConcurrent ==
    \/ Dispatch(Max("auth") + MaxBurst, Limiters, 1 .. MaxFlight)
    \/ Count
    \/ Decide

SpecConcurrent == Init /\ [][NextConcurrent]_vars

\* the requests in flight that are in one of the given stages
InFlight(pcs) == {i \in DOMAIN flight.reqs : flight.reqs[i].pc \in pcs}

\* C17: no update is lost.  When k requests of one client key are in the same
\* limiter at the same time inside one window, the key's count has grown by
\* one for every request counted so far, by exactly k once all are counted,
\* and exactly min(k, budget left) of them are admitted, in whatever order
\* they are counted and resumed.
C17_NoLostUpdate ==
    flight.reqs # <<>> =>
       LET k == Len(flight.reqs)
           left == IF Max(flight.l) > flight.base.hits
                   THEN Max(flight.l) - flight.base.hits ELSE 0
       IN /\ store[flight.l][flight.ip].hits
                = flight.base.hits + Cardinality(InFlight({"counted", "admitted", "rejected"}))
          /\ (InFlight({"arrived", "counted"}) = {}
                => /\ store[flight.l][flight.ip].hits = flight.base.hits + k
                   /\ Cardinality(InFlight({"admitted"})) = IF k < left THEN k ELSE left)

\* three requests met a budget of one or two: all are decided, some admitted
\* and some rejected
C17_Witness ==
    /\ Len(flight.reqs) = MaxFlight
    /\ InFlight({"arrived", "counted"}) = {}
    /\ InFlight({"admitted"}) # {}
    /\ InFlight({"rejected"}) # {}

\* C18: in every reachable state the count stored for a client key and a
\* limiter class is at most the maximum of the class while the record is
\* inside its window; rejected requests do not push the count above it.
C18_CountAtMostMax ==
    \A l \in Limiters, k \in Keys :
       store[l][k].reset > now => store[l][k].hits <= Max(l)

----------------------------------------------------------------------------
(* A client on the rate-limited routes, with the clock advancing between   *)
(* requests up to and across the window boundaries.                        *)

RateClient ==
    Arrive(Max("auth") + MaxBurst, {"ip1"}, {"POST"} \X {UrlLogin, UrlRegister},
           {<<"application/json">>}, TRUE, {"none"}, {<<>>}, {<<>>})

NextRate ==
    \/ RateClient
    \/ Tick({WindowMs("auth") - 1, 1, WindowMs("register") - 1}, Between)
    \/ GeneralLimiter
    \/ SpeedLimiter
    \/ RequestLogger({FALSE})
    \/ ValidateContentType
    \/ BodyParser
    \/ Session
    \/ AddCSRFToken
    \/ SanitizeInput
    \/ RouteLimit
    \/ VerifyCSRFToken

SpecRate == Init /\ [][NextRate]_vars

\* the limiter the request is about to be counted by, "" when none
CountingLimiter ==
    CASE req.pc = "general" /\ ~ Skip("general", req.url) -> "general"
      [] req.pc = "routeLimit" -> RouteLimiter(req.url)
      [] OTHER -> ""

\* the window of a record has fully elapsed since its start
Lapsed(rec, l, t) == rec.hits > 0 /\ t - (rec.reset - WindowMs(l)) >= WindowMs(l)

\* C2: once a rate window has fully elapsed since its start, the next request
\* of that client key counted by the limiter is the first of a fresh window:
\* it is admitted and the count restarts at 1 with a window starting now,
\* whatever the count of the lapsed window was.
C2_FreshWindowAfterLapse ==
    [][\A l \in Limiters :
          (l = CountingLimiter /\ Lapsed(store[l][req.ip], l, now))
          => /\ store'[l][req.ip] = [hits |-> 1, reset |-> now + WindowMs(l)]
             /\ req'.status # 429
             /\ req'.pc # "done"]_vars

\* a client rejected in a window that has since elapsed is back at the limiter
C2_Witness ==
    /\ req.pc = "routeLimit"
    /\ store[RouteLimiter(req.url)][req.ip].hits > Max(RouteLimiter(req.url))
    /\ Lapsed(store[RouteLimiter(req.url)][req.ip], RouteLimiter(req.url), now)

----------------------------------------------------------------------------
(* Clients of the protected routes and of the token endpoint, with and      *)
(* without a session cookie, presenting tokens of every kind, while the     *)
(* clock advances up to and across maxAge.                                 *)

CsrfClient ==
    Arrive(MaxRequests, {"ip1"}, {<<"GET", UrlCsrfToken>>, <<"POST", UrlLogin>>},
           {<<"application/json">>}, FALSE,
           {"none", "own", "other", "badsig"}, {<<>>}, {<<>>})

NextCsrf ==
    \/ CsrfClient
    \/ Tick({MaxAge - 1, 1}, Between)
    \/ GeneralLimiter
    \/ SpeedLimiter
    \/ RequestLogger({FALSE})
    \/ ValidateContentType
    \/ BodyParser
    \/ Session
    \/ AddCSRFToken
    \/ SanitizeInput
    \/ GetCSRFToken
    \/ RouteLimit
    \/ VerifyCSRFToken
    \/ Router

SpecCsrf == Init /\ [][NextCsrf]_vars

Issued == {s \in SessionIds : sessions[s].csrfToken # <<>>}

\* the time a token was issued at
IssuedAt(token) == ParseInt(Nth(Split(token[1].p, ":"), 2))

\* a token with its signature replaced, cut off or lengthened
Altered(token) ==
    {<<token[1], Dot, HmacHex("attacker-key", token[1].p)>>,
     <<token[1], Dot>>,
     <<token[1], Dot, token[3], token[3]>>}
    \cup {<<token[1], Dot, sessions[o].csrfToken[3]>> :
             o \in {x \in Issued : sessions[x].csrfToken # token}}

C6_WitnessBefore ==
    /\ req.cookie = req.sid
    /\ req.cookie \in Issued
    /\ PresentedToken(req) = sessions[req.sid].csrfToken
    /\ now - IssuedAt(sessions[req.sid].csrfToken) = MaxAge - 1
    /\ req.handler = "login"

\* C20: a session holds one token.  The token put in the X-CSRF-Token
\* response header and the token GET /api/csrf-token returns are the token
\* stored in the session, and a stored token is never changed once issued.
C20_OneTokenPerSession ==
    /\ [](req.respToken # <<>> => req.respToken = sessions[req.sid].csrfToken)
    /\ [][\A s \in SessionIds :
             sessions[s].csrfToken # <<>>
             => sessions'[s].csrfToken = sessions[s].csrfToken]_vars

\* a session that comes back later for its token is given the one it has
C20_Witness ==
    /\ req.by = "getCSRFToken"
    /\ req.cookie = req.sid
    /\ req.respToken = sessions[req.sid].csrfToken
    /\ IssuedAt(req.respToken) < now

\* C21: a session whose stored token has aged to maxAge or beyond is given a
\* freshly issued token the next time a token is handed out: the token put
\* in the X-CSRF-Token response header and the token GET /api/csrf-token
\* returns verify for the session at the time they are handed out, so no
\* session is left holding only an expired token.
C21_ReissueOnDemand ==
    /\ [](req.pc = "sanitize"
            => VerifyToken(req.respToken, SessionIdText(req.sid), now))
    /\ [][(req'.by = "getCSRFToken" /\ req.by # "getCSRFToken")
            => VerifyToken(req'.respToken, SessionIdText(req'.sid), now')]_vars

----------------------------------------------------------------------------
(* A client sending every method, with and without a body the parsers      *)
(* take, to a limited route, a route of the routers and an unmapped route. *)

ContentClient ==
    Arrive(MaxRequests, {"ip1"},
           {"GET", "POST", "PUT", "PATCH", "DELETE"} \X {UrlLogin, UrlProfile, UrlUnmapped},
           {<<>>, <<"text/plain">>, <<"multipart/form-data">>,
            <<"application/json", ";", "charset=utf-8">>,
            <<"application/x-www-form-urlencoded">>},
           TRUE, {"none", "own"}, {<<>>}, {<<>>})

NextContent ==
    \/ ContentClient
    \/ GeneralLimiter
    \/ SpeedLimiter
    \/ RequestLogger({FALSE})
    \/ ValidateContentType
    \/ BodyParser
    \/ Session
    \/ AddCSRFToken
    \/ SanitizeInput
    \/ RouteLimit
    \/ VerifyCSRFToken
    \/ Router
    \/ NotFound

SpecContent == Init /\ [][NextContent]_vars

\* C22: a POST, PUT or PATCH request whose Content-Type header is absent or
\* contains neither application/json nor application/x-www-form-urlencoded
\* is answered 400 by the content-type check when it gets there, is never
\* seen by the body parsers, the sanitizer or a route handler; a request with
\* any other method is never ended by the check.
C22_ContentTypeChecked ==
    LET bodied == req.method \in {"POST", "PUT", "PATCH"}
        accepted == \E i \in DOMAIN req.ctype :
                       req.ctype[i] \in {"application/json",
                                         "application/x-www-form-urlencoded"}
    IN /\ (bodied /\ ~ accepted)
            => /\ ~ Ran("bodyParser") /\ ~ Ran("sanitizeInput") /\ req.handler = ""
               /\ Ran("validateContentType")
                     => (req.pc = "done" /\ req.status = 400
                         /\ req.by = "validateContentType")
       /\ (~ bodied => req.by # "validateContentType")

\* a PUT to a mapped route with a text/plain body was answered 400
C22_Witness ==
    /\ req.method = "PUT" /\ req.url = UrlProfile /\ req.ctype = <<"text/plain">>
    /\ req.status = 400 /\ req.by = "validateContentType"

\* a DELETE with a text/plain body went past the check
C22_WitnessOtherMethod ==
    /\ req.method = "DELETE" /\ req.ctype = <<"text/plain">>
    /\ Ran("validateContentType") /\ Ran("bodyParser")

----------------------------------------------------------------------------
(* A client asking for API routes with and without a query string that     *)
(* spells a static-asset suffix, and for a static asset.                   *)

QueryUrls == {UrlLogin, UrlLoginCss, UrlUser, UrlUserCss, UrlAsset}

QueryClient ==
    Arrive(MaxRequests, {"ip1"}, {"GET", "POST"} \X QueryUrls,
           {<<"application/json">>}, TRUE, {"none", "own"}, {<<>>}, {<<>>})

NextQuery ==
    \/ QueryClient
    \/ GeneralLimiter
    \/ SpeedLimiter
    \/ RequestLogger({FALSE})
    \/ ValidateContentType
    \/ BodyParser
    \/ Session
    \/ AddCSRFToken
    \/ SanitizeInput
    \/ RouteLimit
    \/ VerifyCSRFToken
    \/ Router
    \/ NotFound

SpecQuery == Init /\ [][NextQuery]_vars

\* C26: whether the general limiter counts a request depends on the route
\* only: a request the limiter has dealt with was counted exactly when every
\* request of the client to the same path, whatever its query string, is
\* counted (generalHit is 0 for a request the limiter skipped).
C26_CountingIgnoresQuery ==
    Ran("generalLimiter") =>
       \A u \in QueryUrls :
          PathOf(u) = PathOf(req.url)
          => (Skip("general", u) <=> req.generalHit = 0)

----------------------------------------------------------------------------
(* Sanitization: a client sends body fields and query parameters built from *)
(* markup fragments to routes that take them to a handler.                  *)

MaxParts == 2

Fragments ==
    {<<"a">>, <<"&">>, <<"<">>, <<">">>, <<"&", "lt;">>, <<"&", "#60;">>,
     <<"<", "b", ">">>, <<"<", "/", "b", ">">>,
     <<"<", "span", " ", "class", "=", "\"", "c", "\"", ">">>,
     <<"<", "span", " ", "class", "=", "\"", "&", "#38;", "#60;", "\"", ">">>,
     <<"<", "/", "span", ">">>,
     <<"<", "img", " ", "src", "=", "x", " ", "onerror", "=", "alert(1)", ">">>,
     <<"<", "script", ">">>, <<"<", "/", "script", ">">>}

\* the texts made of at most n fragments
RECURSIVE Texts(_)
Texts(n) ==
    IF n = 0 THEN {<<>>}
    ELSE Texts(n - 1) \cup {x \o f : x \in Texts(n - 1), f \in Fragments}

SanBodies ==
    {<<Field("bio", "string", x), Field("age", "number", <<"7">>),
       Field("tags", "object", <<"<", "script", ">">>)>> : x \in Texts(MaxParts)}

SanQueries ==
    {<<>>} \cup {<<Field("q", "string", x)>> : x \in Texts(1)}
           \cup {<<Field("q", "object", <<"<", "b", ">">>)>>}

SanClient ==
    Arrive(1, {"ip1"}, {<<"GET", UrlUser>>, <<"PUT", UrlProfile>>},
           {<<"application/json">>}, TRUE, {"none"}, SanBodies, SanQueries)

NextSanitize ==
    \/ SanClient
    \/ GeneralLimiter
    \/ SpeedLimiter
    \/ RequestLogger({FALSE})
    \/ ValidateContentType
    \/ BodyParser
    \/ Session
    \/ AddCSRFToken
    \/ SanitizeInput
    \/ Router

SpecSanitize == Init /\ [][NextSanitize]_vars

\* the string-typed values among fields
Strings(fields) == {fields[i].s : i \in {j \in DOMAIN fields : fields[j].type = "string"}}

\* C9: sanitization is idempotent: the two-pass body sanitization returns its
\* own output unchanged, and so does each pass on its own (the xss filter on
\* what the xss filter returned, DOMPurify on what DOMPurify returned).
C9_SanitizeIdempotent ==
    Ran("sanitizeInput") =>
       /\ \A x \in Strings(req.body) : SanitizeBody(x) = x /\ DomPurify(x) = x
       /\ \A x \in Strings(req.sent) : Xss(Xss(x)) = Xss(x)
       /\ \A x \in Strings(req.query) : Xss(x) = x

\* C10: when a request reaches a route handler, every string-typed body
\* field and every string-typed query parameter is the two-pass sanitize of
\* the value the client sent, and every other field is the value sent.
C10_HandlerSeesTwoPassSanitized ==
    req.handler # "" =>
       /\ Len(req.body) = Len(req.sent) /\ Len(req.query) = Len(req.sentQuery)
       /\ \A i \in DOMAIN req.body :
             req.body[i] = IF req.sent[i].type = "string"
                           THEN [req.sent[i] EXCEPT !.s = SanitizeBody(@)]
                           ELSE req.sent[i]
       /\ \A i \in DOMAIN req.query :
             req.query[i] = IF req.sentQuery[i].type = "string"
                            THEN [req.sentQuery[i] EXCEPT !.s = SanitizeBody(@)]
                            ELSE req.sentQuery[i]

\* every "<" of text opens a start or end tag of the allow-list that has no
\* attribute
OnlyAllowedMarkup(text) ==
    \A i \in DOMAIN text :
       text[i] = "<" =>
          \/ /\ i + 2 <= Len(text)
             /\ <<text[i + 1]>> \in AllowedTags /\ text[i + 2] = ">"
          \/ /\ i + 3 <= Len(text)
             /\ text[i + 1] = "/" /\ <<text[i + 2]>> \in AllowedTags
             /\ text[i + 3] = ">"

\* the atoms of the text <img src=x onerror=alert(1)>
ImgProbe == <<"<", "img", " ", "src", "=", "x", " ", "onerror", "=", "alert(1)", ">">>

\* C16: a body field sent as <img src=x onerror=alert(1)> reaches the handler
\* empty, the markup removed and not kept as escaped text; wherever that
\* markup stands in a body field, nothing of it is in the value the handler
\* sees; and no body field the handler sees holds an element outside the
\* allow-list or an attribute.
C16_MarkupRemoved ==
    req.handler # "" =>
       \A i \in DOMAIN req.body :
          req.body[i].type = "string" =>
             /\ (req.sent[i].s = ImgProbe => req.body[i].s = <<>>)
             /\ \A j \in DOMAIN req.body[i].s :
                   req.body[i].s[j] \notin {"img", "onerror", "alert(1)"}
             /\ OnlyAllowedMarkup(req.body[i].s)

\* the handler got a field sent as text followed by the img markup
C16_Witness ==
    /\ req.handler = "profile"
    /\ \E i \in DOMAIN req.body :
          /\ req.sent[i].s = <<"a">> \o ImgProbe
          /\ req.body[i].s = <<"a">>

\* the handler got a field sent as nothing but the img markup
C16_WitnessAlone ==
    /\ req.handler = "profile"
    /\ \E i \in DOMAIN req.body : req.sent[i].s = ImgProbe /\ req.body[i].s = <<>>

\* C30: sanitization changes top-level string fields only.  After the
\* sanitizer every body field and query parameter is there under its name and
\* type, and a field whose value is an object or an array (or a number) is
\* exactly what the client sent, the markup nested inside it included.
C30_OnlyTopLevelStrings ==
    Ran("sanitizeInput") =>
       /\ Len(req.body) = Len(req.sent) /\ Len(req.query) = Len(req.sentQuery)
       /\ \A i \in DOMAIN req.body :
             /\ req.body[i].name = req.sent[i].name
             /\ req.body[i].type = req.sent[i].type
             /\ (req.sent[i].type # "string" => req.body[i] = req.sent[i])
       /\ \A i \in DOMAIN req.query :
             /\ req.query[i].name = req.sentQuery[i].name
             /\ req.query[i].type = req.sentQuery[i].type
             /\ (req.sentQuery[i].type # "string" => req.query[i] = req.sentQuery[i])

\* the handler got a script tag nested in a body field, as sent, next to a
\* string field the sanitizer changed
C30_Witness ==
    /\ req.handler = "profile"
    /\ \E i, j \in DOMAIN req.body :
          /\ req.body[i].type = "object"
          /\ req.body[i].s = <<"<", "script", ">">>
          /\ SanitizeBody(req.body[i].s) # req.body[i].s
          /\ req.body[j].type = "string" /\ req.body[j].s # req.sent[j].s

\* the handler got markup nested in a query parameter, as sent
C30_WitnessQuery ==
    /\ req.handler = "user"
    /\ \E i \in DOMAIN req.query :
          req.query[i].type = "object" /\ req.query[i].s = <<"<", "b", ">">>

\* the names of the elements text has a start tag of
Elements(text) ==
    {<<text[i + 1]>> : i \in {j \in 1 .. Len(text) - 1 :
                                 text[j] = "<" /\ text[j + 1] \in NameAtoms}}

\* the atoms that follow white space inside a tag of text
Attributes(text) ==
    {text[j + 1] : j \in {k \in 1 .. Len(text) - 1 :
                             /\ text[k] = " "
                             /\ \E i \in 1 .. k - 1 :
                                   /\ text[i] = "<"
                                   /\ \A m \in i .. k : text[m] # ">"}}

\* C24: the two sanitizer passes use the same allow-list and permit no
\* attribute: every element the xss filter lets through (leaves a start tag
\* of in a value the client sent) is let through by DOMPurify as well,
\* DOMPurify lets through no other element, and what the xss filter returns
\* has no attribute on any element.
C24_SameAllowList ==
    Ran("sanitizeInput") =>
       \A x \in Strings(req.sent) \cup Strings(req.sentQuery) :
          /\ Elements(DomPurify(Xss(x))) = Elements(Xss(x))
          /\ Attributes(Xss(x)) = {}

----------------------------------------------------------------------------
(* The AuthProvider under every order of auth-state changes and answers    *)
(* to its pending calls.                                                   *)

NextProvider ==
    \/ GetSession
    \/ AuthStateChange
    \/ FetchUserProfile
    \/ EnsureUserProfile

SpecProvider == Init /\ [][NextProvider]_vars

\* C27: whenever the provider reports isAuthenticated = false its user is
\* null, in whatever order auth-state callbacks run and profile fetches
\* complete; a fetch that completes after a sign-out leaves no user object.
C27_UnauthenticatedHasNoUser ==
    ~ provider.isAuthenticated => provider.user = NullUser

----------------------------------------------------------------------------
(* The login form checking its attempt limiter, the clock advancing up to  *)
(* and across the window, a successful login clearing the record.          *)

NextAttempts ==
    \/ CheckRateLimit(MaxAttempts, AttemptWindowMs)
    \/ ClearRateLimit
    \/ Tick({AttemptWindowMs - 1, 1}, Between)

SpecAttempts == Init /\ [][NextAttempts]_vars

\* C28: since the record was last cleared, no more than maxAttempts calls
\* of checkRateLimit were allowed inside any time span shorter than
\* windowMs (any maxAttempts + 1 allowed calls are at least windowMs apart);
\* a denied call returns a waitTime above 0 and leaves the stored attempts
\* as they were; and a call made when the oldest stored attempt is windowMs
\* old or older is allowed.
C28_AttemptLimiter ==
    /\ [](/\ \A i, j \in DOMAIN local.allowedAt :
                j - i >= MaxAttempts
                => local.allowedAt[j] - local.allowedAt[i] >= AttemptWindowMs
           /\ (~ local.rateCheck.allowed => local.rateCheck.waitTime > 0))
    /\ [][local'.calls # local.calls
            => /\ (~ local'.rateCheck.allowed => local'.attempts = local.attempts)
               /\ (/\ local.attempts # <<>>
                   /\ now - MinOf(local.attempts) >= AttemptWindowMs)
                  => local'.rateCheck.allowed]_vars

\* five attempts were allowed, the form was refused one millisecond before
\* the window of the oldest ended, and the next call, at the end of that
\* window, was allowed
C28_Witness ==
    /\ Len(local.allowedAt) = MaxAttempts + 1
    /\ local.calls > MaxAttempts + 1
    /\ local.rateCheck.allowed
    /\ now - local.allowedAt[1] = AttemptWindowMs

\* the form is refused one millisecond before the oldest attempt leaves the
\* window and is told to wait one second
C28_WitnessDenied ==
    /\ ~ local.rateCheck.allowed
    /\ local.rateCheck.waitTime = 1
    /\ now - MinOf(local.attempts) = AttemptWindowMs - 1

====
